---- MODULE Spec2Model ----
(***************************************************************************)
(* piri: keeps the Firefox Picture-in-Picture window on the focused        *)
(* workspace of the niri compositor.  The module models main() of          *)
(* src/main.rs from the point where both sockets are connected (line 74)   *)
(* and the matcher window_matches (lines 140-152).                         *)
(*                                                                         *)
(* Option<T> is modelled as a sequence: None is <<>> and Some(x) is <<x>>. *)
(***************************************************************************)
EXTENDS Integers, Sequences, FiniteSets, TLC

VARIABLES
    pc,          \* position of main: "start", "subscribed", "streaming", "exited",
                 \* "failed"; inside a send(): "subscribing", "listing", "awaiting"
    pip_window,  \* the local pip_window: Option<u64>
    sent,        \* history: every request sent so far, in order, with its outcome
    seeds,       \* history: how many times the snapshot seeding loop has run
    streamed,    \* history: TRUE once read_event() has been called
    last,        \* history: the step taken last, its input and the state before it
    m_pc,        \* the matcher on its own: "off", "call", "return"
    m_window,    \* the matcher on its own: the argument of window_matches
    m_result,    \* the matcher on its own: what window_matches returned
    open,        \* compositor: the descriptors of the windows now open
    gone,        \* compositor: the ids of the windows closed so far
    unseen,      \* compositor: the ids closed after it closed the event socket
    stream,      \* compositor: the events written to the event socket, in order
    eos,         \* compositor: TRUE once it has closed the event socket
    consumed,    \* how many events of the stream read_event() has returned
    pending,     \* the requests written whose outcome send() still waits for
    answer,      \* compositor: the reply it has written that main has not read yet
    listed,      \* history: the ids of the windows the snapshot listed
    observed,    \* history: the ids seen matching, their close not handled since
    scn          \* history: how far the run has followed the end-to-end scenario

main_vars == <<pc, pip_window, sent, seeds, streamed, last>>
matcher_vars == <<m_pc, m_window, m_result>>
env_vars == <<open, gone, unseen, stream, eos, consumed, pending, answer, listed, observed, scn>>
vars == <<main_vars, matcher_vars, env_vars>>

(***************************************************************************)
(* Bounds of the model.                                                    *)
(***************************************************************************)
MaxWindows == 2     \* longest window snapshot
MaxMoves == 2       \* most move commands sent in one run

None == <<>>
Some(x) == <<x>>

WindowIds == {1, 2}
WorkspaceIds == {7, 8}

(***************************************************************************)
(* The matcher.                                                            *)
(***************************************************************************)
EndsWith(s, suffix) ==
    /\ Len(s) >= Len(suffix)
    /\ SubSeq(s, Len(s) - Len(suffix) + 1, Len(s)) = suffix

\* Regex ^Picture-in-Picture$ : the whole text is the literal.
TITLE_REGEX_is_match(title) == title = "Picture-in-Picture"

\* Regex firefox$ : the text ends with the literal.
APP_ID_REGEX_is_match(app_id) == EndsWith(app_id, "firefox")

\* Variant: a window without an app-id is rejected, as one without a title is.
window_matches_AppIdRequired(window) ==
    LET app_id_matches ==
            IF window.app_id # None
            THEN APP_ID_REGEX_is_match(window.app_id[1])
            ELSE FALSE
    IN  IF window.title # None
        THEN TITLE_REGEX_is_match(window.title[1]) /\ app_id_matches
        ELSE FALSE

window_matches(window) ==
    LET app_id_matches ==
            IF window.app_id # None
            THEN APP_ID_REGEX_is_match(window.app_id[1])
            ELSE TRUE
    IN  IF window.title # None
        THEN TITLE_REGEX_is_match(window.title[1]) /\ app_id_matches
        ELSE FALSE

(***************************************************************************)
(* Inputs: window descriptors, replies and events of the compositor.       *)
(***************************************************************************)
Titles == {"Picture-in-Picture", "Picture-in-Picture - YouTube"}
AppIds == {"org.mozilla.firefox", "firefox-esr"}

OptTitles == {None} \cup {Some(t) : t \in Titles}
OptAppIds == {None} \cup {Some(a) : a \in AppIds}

Windows == [id : WindowIds, title : OptTitles, app_id : OptAppIds]

\* Window lists of a snapshot, of at most n windows.
WindowLists(n) == UNION {[1..k -> Windows] : k \in 0..n}

\* Socket::send returns io::Result<Reply>, Reply = Result<Response, String>.
\* tag "IoError" is Err(io::Error), "Err" is Ok(Err(msg)), any other tag is
\* Ok(Ok(Response::<tag>)).
Reply(tag, windows) == [tag |-> tag, windows |-> windows]
NoReply == Reply("None", <<>>)
IoError == Reply("IoError", <<>>)
ErrReply == Reply("Err", <<>>)
Handled == Reply("Handled", <<>>)
Version == Reply("Version", <<>>)
WindowsReply(windows) == Reply("Windows", windows)

SubscribeReplies == {IoError, ErrReply, Handled, Version}
SnapshotReplies ==
    {IoError, ErrReply, Handled} \cup {WindowsReply(ws) : ws \in WindowLists(MaxWindows)}
MoveReplies == {IoError, ErrReply, Handled}

\* Requests.
EventStream == [kind |-> "EventStream"]
RequestWindows == [kind |-> "Windows"]
\* Variant: the move also shifts the input focus to the window.
MoveWindowToWorkspace_Focus(window, id) ==
    [kind |-> "Action", action |-> "MoveWindowToWorkspace",
     window_id |-> Some(window), reference |-> id, focus |-> TRUE]

\* Variant: no window id is given, the compositor moves the focused window.
MoveWindowToWorkspace_NoWindow(window, id) ==
    [kind |-> "Action", action |-> "MoveWindowToWorkspace",
     window_id |-> None, reference |-> id, focus |-> FALSE]

MoveWindowToWorkspace(window, id) ==
    [kind |-> "Action", action |-> "MoveWindowToWorkspace",
     window_id |-> Some(window), reference |-> id, focus |-> FALSE]

Sent(socket, request, reply) ==
    [socket |-> socket, request |-> request, outcome |-> reply.tag]

IsMove(entry) == entry.request.kind = "Action"
NumMoves == Cardinality({i \in 1..Len(sent) : IsMove(sent[i])})

\* Events.
EvWorkspaceActivated(id, focused) ==
    [kind |-> "WorkspaceActivated", id |-> id, focused |-> focused]
EvWindowOpenedOrChanged(window) ==
    [kind |-> "WindowOpenedOrChanged", window |-> window]
EvWindowClosed(id) == [kind |-> "WindowClosed", id |-> id]
EvOther(name) == [kind |-> name]
NoEvent == [kind |-> "None"]

\* Event kinds the loop has no arm for.
OtherKinds == {"WindowFocusChanged", "WorkspacesChanged"}

\* What makes read_event() return Err: the end of the stream, a line that
\* does not decode into an Event, a read error.
ReadErrors == {"EndOfStream", "Malformed", "Io"}
EvReadError(cause) == [kind |-> "ReadError", cause |-> cause]

\* The record of a step: what was read or received, the tracked id and the
\* number of requests sent before it.
Step(op, event, reply) ==
    [op |-> op, event |-> event, reply |-> reply,
     before |-> pip_window, sent_before |-> Len(sent)]

(***************************************************************************)
(* The initial state: both sockets connected, nothing tracked.             *)
(***************************************************************************)
Init ==
    /\ pc = "start"
    /\ pip_window = None
    /\ sent = <<>>
    /\ seeds = 0
    /\ streamed = FALSE
    /\ last = [op |-> "Init", event |-> NoEvent, reply |-> NoReply,
               before |-> None, sent_before |-> 0]
    /\ m_pc = "off"
    /\ m_window = [id |-> 1, title |-> None, app_id |-> None]
    /\ m_result = FALSE
    /\ open = {}
    /\ gone = {}
    /\ unseen = {}
    /\ stream = <<>>
    /\ eos = FALSE
    /\ consumed = 0
    /\ pending = <<>>
    /\ answer = None
    /\ listed = {}
    /\ observed = {}
    /\ scn = 0

(***************************************************************************)
(* events_socket.send(Request::EventStream)? and the matches! on it.       *)
(***************************************************************************)
\* Variant: any reply that is not a transport error counts as subscribed.
Subscribe_AnyReply(reply) ==
    /\ pc = "start"
    /\ sent' = Append(sent, Sent("events", EventStream, reply))
    /\ pc' = IF reply.tag = "IoError" THEN "failed" ELSE "subscribed"
    /\ last' = Step("Subscribe", NoEvent, reply)
    /\ UNCHANGED <<pip_window, seeds, streamed>>

\* Variant: a refused subscription ends main with an error.
Subscribe_RefusalFails(reply) ==
    /\ pc = "start"
    /\ sent' = Append(sent, Sent("events", EventStream, reply))
    /\ pc' = IF reply.tag = "Handled" THEN "subscribed" ELSE "failed"
    /\ last' = Step("Subscribe", NoEvent, reply)
    /\ UNCHANGED <<pip_window, seeds, streamed>>

Subscribe(reply) ==
    /\ pc = "start"
    /\ sent' = Append(sent, Sent("events", EventStream, reply))
    /\ pc' = IF reply.tag = "IoError" THEN "failed"
             ELSE IF reply.tag = "Handled" THEN "subscribed"
             ELSE "exited"
    /\ last' = Step("Subscribe", NoEvent, reply)
    /\ UNCHANGED <<pip_window, seeds, streamed>>

(***************************************************************************)
(* The seeding loop: the first matching window of the snapshot.            *)
(***************************************************************************)
\* Variant: the loop without its break, the last matching window wins.
RECURSIVE Seed_LastMatch(_, _)
Seed_LastMatch(tracked, windows) ==
    IF windows = <<>> THEN tracked
    ELSE IF window_matches(Head(windows))
         THEN Seed_LastMatch(Some(Head(windows).id), Tail(windows))
         ELSE Seed_LastMatch(tracked, Tail(windows))

\* Variant: the loop tracks the first window listed, matching or not.
Seed_FirstWindow(tracked, windows) ==
    IF windows = <<>> THEN tracked ELSE Some(Head(windows).id)

RECURSIVE Seed(_, _)
Seed(tracked, windows) ==
    IF windows = <<>> THEN tracked
    ELSE IF window_matches(Head(windows)) THEN Some(Head(windows).id)
    ELSE Seed(tracked, Tail(windows))

(***************************************************************************)
(* requests_socket.send(Request::Windows)?, the seeding, read_events().    *)
(***************************************************************************)
\* Variant: the event loop runs only when the snapshot was a window list.
FetchWindows_LoopInsideIfLet(reply) ==
    /\ pc = "subscribed"
    /\ sent' = Append(sent, Sent("requests", RequestWindows, reply))
    /\ last' = Step("FetchWindows", NoEvent, reply)
    /\ IF reply.tag = "IoError"
       THEN /\ pc' = "failed"
            /\ UNCHANGED <<pip_window, seeds>>
       ELSE IF reply.tag = "Windows"
       THEN /\ pc' = "streaming"
            /\ pip_window' = Seed(pip_window, reply.windows)
            /\ seeds' = seeds + 1
       ELSE /\ pc' = "exited"
            /\ UNCHANGED <<pip_window, seeds>>
    /\ UNCHANGED streamed

FetchWindows(reply) ==
    /\ pc = "subscribed"
    /\ sent' = Append(sent, Sent("requests", RequestWindows, reply))
    /\ last' = Step("FetchWindows", NoEvent, reply)
    /\ IF reply.tag = "IoError"
       THEN /\ pc' = "failed"
            /\ UNCHANGED <<pip_window, seeds>>
       ELSE /\ pc' = "streaming"
            /\ IF reply.tag = "Windows"
               THEN /\ pip_window' = Seed(pip_window, reply.windows)
                    /\ seeds' = seeds + 1
               ELSE UNCHANGED <<pip_window, seeds>>
    /\ UNCHANGED streamed

(***************************************************************************)
(* The event loop: one action per outcome of read_event() and match arm.   *)
(***************************************************************************)
\* Variant: a line that does not decode is skipped and the loop goes on.
ReadEventErr_SkipsMalformed(cause) ==
    /\ pc = "streaming"
    /\ pc' = IF cause = "Malformed" THEN "streaming" ELSE "exited"
    /\ streamed' = TRUE
    /\ last' = Step("ReadEvent", EvReadError(cause), NoReply)
    /\ UNCHANGED <<pip_window, sent, seeds>>

\* Variant: at the end of the stream main subscribes again.
ReadEventErr_Resubscribes(cause) ==
    /\ pc = "streaming"
    /\ pc' = IF cause = "EndOfStream" /\ Len(sent) < 4 THEN "start" ELSE "exited"
    /\ streamed' = TRUE
    /\ last' = Step("ReadEvent", EvReadError(cause), NoReply)
    /\ UNCHANGED <<pip_window, sent, seeds>>

ReadEventErr(cause) ==
    /\ pc = "streaming"
    /\ pc' = "exited"
    /\ streamed' = TRUE
    /\ last' = Step("ReadEvent", EvReadError(cause), NoReply)
    /\ UNCHANGED <<pip_window, sent, seeds>>

\* Variant: the move is sent whether or not the workspace is focused.
WorkspaceActivated_IgnoresFocused(id, focused, reply) ==
    /\ pc = "streaming"
    /\ streamed' = TRUE
    /\ IF pip_window # None
       THEN /\ NumMoves < MaxMoves
            /\ reply \in MoveReplies
            /\ sent' = Append(sent,
                   Sent("requests", MoveWindowToWorkspace(pip_window[1], id), reply))
            /\ pc' = IF reply.tag = "IoError" THEN "failed" ELSE "streaming"
       ELSE /\ reply = NoReply
            /\ UNCHANGED <<sent, pc>>
    /\ last' = Step("ReadEvent", EvWorkspaceActivated(id, focused), reply)
    /\ UNCHANGED <<pip_window, seeds>>

\* Variant: a move that fails in the transport is sent a second time.
WorkspaceActivated_Retry(id, focused, reply) ==
    /\ pc = "streaming"
    /\ streamed' = TRUE
    /\ IF focused /\ pip_window # None
       THEN /\ NumMoves < MaxMoves
            /\ reply \in MoveReplies
            /\ LET entry == Sent("requests",
                                 MoveWindowToWorkspace(pip_window[1], id), reply)
               IN  sent' = IF reply.tag = "IoError"
                           THEN Append(Append(sent, entry), entry)
                           ELSE Append(sent, entry)
            /\ pc' = IF reply.tag = "IoError" THEN "failed" ELSE "streaming"
       ELSE /\ reply = NoReply
            /\ UNCHANGED <<sent, pc>>
    /\ last' = Step("ReadEvent", EvWorkspaceActivated(id, focused), reply)
    /\ UNCHANGED <<pip_window, seeds>>

\* Variant: an error reply to the move ends main like a transport error.
WorkspaceActivated_FatalErrReply(id, focused, reply) ==
    /\ pc = "streaming"
    /\ streamed' = TRUE
    /\ IF focused /\ pip_window # None
       THEN /\ NumMoves < MaxMoves
            /\ reply \in MoveReplies
            /\ sent' = Append(sent,
                   Sent("requests", MoveWindowToWorkspace(pip_window[1], id), reply))
            /\ pc' = IF reply.tag \in {"IoError", "Err"} THEN "failed" ELSE "streaming"
       ELSE /\ reply = NoReply
            /\ UNCHANGED <<sent, pc>>
    /\ last' = Step("ReadEvent", EvWorkspaceActivated(id, focused), reply)
    /\ UNCHANGED <<pip_window, seeds>>

WorkspaceActivated(id, focused, reply) ==
    /\ pc = "streaming"
    /\ streamed' = TRUE
    /\ IF focused /\ pip_window # None
       THEN /\ NumMoves < MaxMoves
            /\ reply \in MoveReplies
            /\ sent' = Append(sent,
                   Sent("requests", MoveWindowToWorkspace(pip_window[1], id), reply))
            /\ pc' = IF reply.tag = "IoError" THEN "failed" ELSE "streaming"
       ELSE /\ reply = NoReply
            /\ UNCHANGED <<sent, pc>>
    /\ last' = Step("ReadEvent", EvWorkspaceActivated(id, focused), reply)
    /\ UNCHANGED <<pip_window, seeds>>

\* Variant: the tracked window is dropped when it stops matching.
WindowOpenedOrChanged_Untracks(window) ==
    /\ pc = "streaming"
    /\ streamed' = TRUE
    /\ IF window_matches(window) /\ pip_window # Some(window.id)
       THEN pip_window' = Some(window.id)
       ELSE IF ~window_matches(window) /\ pip_window = Some(window.id)
       THEN pip_window' = None
       ELSE UNCHANGED pip_window
    /\ last' = Step("ReadEvent", EvWindowOpenedOrChanged(window), NoReply)
    /\ UNCHANGED <<pc, sent, seeds>>

\* Variant: a matching window is tracked only while nothing is tracked.
WindowOpenedOrChanged_OnlyWhenIdle(window) ==
    /\ pc = "streaming"
    /\ streamed' = TRUE
    /\ IF window_matches(window) /\ pip_window = None
       THEN pip_window' = Some(window.id)
       ELSE UNCHANGED pip_window
    /\ last' = Step("ReadEvent", EvWindowOpenedOrChanged(window), NoReply)
    /\ UNCHANGED <<pc, sent, seeds>>

WindowOpenedOrChanged(window) ==
    /\ pc = "streaming"
    /\ streamed' = TRUE
    /\ IF window_matches(window) /\ pip_window # Some(window.id)
       THEN pip_window' = Some(window.id)
       ELSE UNCHANGED pip_window
    /\ last' = Step("ReadEvent", EvWindowOpenedOrChanged(window), NoReply)
    /\ UNCHANGED <<pc, sent, seeds>>

\* Variant: the close of any window clears the tracked id.
WindowClosed_Any(id) ==
    /\ pc = "streaming"
    /\ streamed' = TRUE
    /\ IF pip_window # None
       THEN pip_window' = None
       ELSE UNCHANGED pip_window
    /\ last' = Step("ReadEvent", EvWindowClosed(id), NoReply)
    /\ UNCHANGED <<pc, sent, seeds>>

\* Variant: the comparison is inverted, the close of another window untracks.
WindowClosed_OtherOnly(id) ==
    /\ pc = "streaming"
    /\ streamed' = TRUE
    /\ IF pip_window # None /\ pip_window[1] # id
       THEN pip_window' = None
       ELSE UNCHANGED pip_window
    /\ last' = Step("ReadEvent", EvWindowClosed(id), NoReply)
    /\ UNCHANGED <<pc, sent, seeds>>

\* Variant: when the tracked window closes, another window seen matching
\* before takes its place.
WindowClosed_Fallback(id) ==
    /\ pc = "streaming"
    /\ streamed' = TRUE
    /\ IF pip_window # None /\ pip_window[1] = id
       THEN pip_window' = IF observed \ {id} = {}
                          THEN None
                          ELSE Some(CHOOSE w \in observed \ {id} : TRUE)
       ELSE UNCHANGED pip_window
    /\ last' = Step("ReadEvent", EvWindowClosed(id), NoReply)
    /\ UNCHANGED <<pc, sent, seeds>>

WindowClosed(id) ==
    /\ pc = "streaming"
    /\ streamed' = TRUE
    /\ IF pip_window # None /\ pip_window[1] = id
       THEN pip_window' = None
       ELSE UNCHANGED pip_window
    /\ last' = Step("ReadEvent", EvWindowClosed(id), NoReply)
    /\ UNCHANGED <<pc, sent, seeds>>

\* Variant: an event without an arm ends the loop.
OtherEvent_Breaks(name) ==
    /\ pc = "streaming"
    /\ pc' = "exited"
    /\ streamed' = TRUE
    /\ last' = Step("ReadEvent", EvOther(name), NoReply)
    /\ UNCHANGED <<pip_window, sent, seeds>>

OtherEvent(name) ==
    /\ pc = "streaming"
    /\ streamed' = TRUE
    /\ last' = Step("ReadEvent", EvOther(name), NoReply)
    /\ UNCHANGED <<pc, pip_window, sent, seeds>>

Next ==
    \/ \E reply \in SubscribeReplies :
           Subscribe(reply) /\ UNCHANGED <<matcher_vars, env_vars>>
    \/ \E reply \in SnapshotReplies :
           FetchWindows(reply) /\ UNCHANGED <<matcher_vars, env_vars>>
    \/ \E cause \in ReadErrors :
           ReadEventErr(cause) /\ UNCHANGED <<matcher_vars, env_vars>>
    \/ \E id \in WorkspaceIds, focused \in BOOLEAN, reply \in MoveReplies \cup {NoReply} :
           WorkspaceActivated(id, focused, reply) /\ UNCHANGED <<matcher_vars, env_vars>>
    \/ \E window \in Windows :
           WindowOpenedOrChanged(window) /\ UNCHANGED <<matcher_vars, env_vars>>
    \/ \E id \in WindowIds :
           WindowClosed(id) /\ UNCHANGED <<matcher_vars, env_vars>>
    \/ \E name \in OtherKinds :
           OtherEvent(name) /\ UNCHANGED <<matcher_vars, env_vars>>

Spec == Init /\ [][Next]_vars

(***************************************************************************)
(* The matcher on its own: window_matches applied to one descriptor.       *)
(***************************************************************************)
MatchTitles ==
    {"Picture-in-Picture", "Picture-in-Picture - YouTube", "xPicture-in-Picture",
     "picture-in-picture", "Picture in Picture", "Mozilla Firefox", ""}
MatchAppIds ==
    {"firefox", "org.mozilla.firefox", "firefox-esr", "Firefox", "firefo",
     "chromium", ""}
MatchWindows ==
    [id : WindowIds,
     title : {None} \cup {Some(t) : t \in MatchTitles},
     app_id : {None} \cup {Some(a) : a \in MatchAppIds}]

MatchInit ==
    /\ pc = "start"
    /\ pip_window = None
    /\ sent = <<>>
    /\ seeds = 0
    /\ streamed = FALSE
    /\ last = [op |-> "Init", event |-> NoEvent, reply |-> NoReply,
               before |-> None, sent_before |-> 0]
    /\ m_pc = "call"
    /\ m_window \in MatchWindows
    /\ m_result = FALSE
    /\ open = {}
    /\ gone = {}
    /\ unseen = {}
    /\ stream = <<>>
    /\ eos = FALSE
    /\ consumed = 0
    /\ pending = <<>>
    /\ answer = None
    /\ listed = {}
    /\ observed = {}
    /\ scn = 0

CallWindowMatches ==
    /\ m_pc = "call"
    /\ m_result' = window_matches(m_window)
    /\ m_pc' = "return"
    /\ UNCHANGED <<m_window, main_vars, env_vars>>

MatchNext == CallWindowMatches

MatchSpec == MatchInit /\ [][MatchNext]_vars

(***************************************************************************)
(* main against a compositor.  The compositor owns the windows, writes     *)
(* every change of them to the event socket once it has answered           *)
(* EventStream with Handled, and answers Windows with the windows open at  *)
(* the moment it answers.  Here every Socket::send is split: main writes   *)
(* the request, the compositor goes on running, and main returns from      *)
(* send() with the reply written meanwhile or with a transport error.      *)
(* read_event() returns the events of the stream in the order they were    *)
(* written.  The compositor may close the event socket at any moment and   *)
(* goes on running: windows still open, change and close, with no event    *)
(* for it.                                                                 *)
(***************************************************************************)
MaxStream == 3      \* most events the compositor writes to the stream

EnvProfiles ==
    {[title |-> None, app_id |-> None],
     [title |-> Some("Picture-in-Picture"), app_id |-> Some("firefox")]}
EnvWindows ==
    {[id |-> i, title |-> p.title, app_id |-> p.app_id] :
        i \in WindowIds, p \in EnvProfiles}
EnvWorkspaces == {7}
EnvOtherKinds == {"WindowFocusChanged"}

IdsOf(windows) == {w.id : w \in windows}

\* The window sets a compositor can hold: one descriptor per id.
WindowSets == {ws \in SUBSET EnvWindows : Cardinality(IdsOf(ws)) = Cardinality(ws)}

\* The orders in which the Windows response can list the open windows.
Listings(windows) ==
    {l \in [1..Cardinality(windows) -> windows] :
        \A i, j \in 1..Cardinality(windows) : l[i] = l[j] => i = j}

\* The event socket carries events: the compositor has answered the
\* subscription with Handled, whether or not main has read that reply yet.
StreamOpen ==
    /\ \/ sent # <<>> /\ sent[1].outcome = "Handled"
       \/ pc = "subscribing" /\ answer = Some(Handled)
    /\ ~eos

\* The compositor writes an event, if the event socket carries events.
Emit(event) ==
    IF StreamOpen
    THEN Len(stream) < MaxStream /\ stream' = Append(stream, event)
    ELSE UNCHANGED stream

\* The ids of the matching descriptors of a window list.
MatchingIds(windows) ==
    {windows[i].id : i \in {j \in 1..Len(windows) : window_matches(windows[j])}}

EnvInit ==
    /\ pc = "start"
    /\ pip_window = None
    /\ sent = <<>>
    /\ seeds = 0
    /\ streamed = FALSE
    /\ last = [op |-> "Init", event |-> NoEvent, reply |-> NoReply,
               before |-> None, sent_before |-> 0]
    /\ m_pc = "off"
    /\ m_window = [id |-> 1, title |-> None, app_id |-> None]
    /\ m_result = FALSE
    /\ open \in WindowSets
    /\ gone = {}
    /\ unseen = {}
    /\ stream = <<>>
    /\ eos = FALSE
    /\ consumed = 0
    /\ pending = <<>>
    /\ answer = None
    /\ listed = {}
    /\ observed = {}
    /\ scn = 0

(***************************************************************************)
(* The compositor.                                                         *)
(***************************************************************************)
\* The compositor acts while main runs.
CompositorRuns ==
    pc \in {"start", "subscribing", "subscribed", "listing", "streaming", "awaiting"}

C_WindowOpenedOrChanged(window) ==
    /\ CompositorRuns
    /\ window.id \notin gone
    /\ open' = {w \in open : w.id # window.id} \cup {window}
    /\ Emit(EvWindowOpenedOrChanged(window))
    /\ UNCHANGED <<main_vars, matcher_vars, gone, unseen, eos, consumed, pending,
                   answer, listed, observed, scn>>

C_WindowClosed(id) ==
    /\ CompositorRuns
    /\ id \in IdsOf(open)
    /\ open' = {w \in open : w.id # id}
    /\ gone' = gone \cup {id}
    /\ unseen' = IF eos THEN unseen \cup {id} ELSE unseen
    /\ Emit(EvWindowClosed(id))
    /\ UNCHANGED <<main_vars, matcher_vars, eos, consumed, pending,
                   answer, listed, observed, scn>>

C_WorkspaceActivated(id, focused) ==
    /\ CompositorRuns
    /\ StreamOpen
    /\ Emit(EvWorkspaceActivated(id, focused))
    /\ UNCHANGED <<main_vars, matcher_vars, open, gone, unseen, eos, consumed, pending,
                   answer, listed, observed, scn>>

C_OtherEvent(name) ==
    /\ CompositorRuns
    /\ StreamOpen
    /\ Emit(EvOther(name))
    /\ UNCHANGED <<main_vars, matcher_vars, open, gone, unseen, eos, consumed, pending,
                   answer, listed, observed, scn>>

C_CloseStream ==
    /\ CompositorRuns
    /\ StreamOpen
    /\ eos' = TRUE
    /\ UNCHANGED <<main_vars, matcher_vars, open, gone, unseen, stream, consumed, pending,
                   answer, listed, observed, scn>>

\* The compositor answers the subscription request main has written.
C_AnswerEventStream(reply) ==
    /\ pc = "subscribing"
    /\ answer = None
    /\ answer' = Some(reply)
    /\ UNCHANGED <<main_vars, matcher_vars, open, gone, unseen, stream, eos, consumed,
                   pending, listed, observed, scn>>

\* The compositor answers the snapshot request main has written: an error,
\* or the windows open now.
C_AnswerWindows(reply) ==
    /\ pc = "listing"
    /\ answer = None
    /\ reply.tag = "Windows" => reply.windows \in Listings(open)
    /\ answer' = Some(reply)
    /\ UNCHANGED <<main_vars, matcher_vars, open, gone, unseen, stream, eos, consumed,
                   pending, listed, observed, scn>>

(***************************************************************************)
(* The end-to-end scenario: the snapshot lists window 1 without a title    *)
(* and window 2 with matching title and app-id; then WorkspaceActivated(7, *)
(* focused), WindowClosed(2) and WorkspaceActivated(7, focused) are        *)
(* handled.  scn counts the steps followed, -1 once the run has left it.   *)
(***************************************************************************)
ScenarioWindows ==
    <<[id |-> 1, title |-> None, app_id |-> None],
      [id |-> 2, title |-> Some("Picture-in-Picture"), app_id |-> Some("firefox")]>>

ScenarioEvents ==
    <<EvWorkspaceActivated(7, TRUE), EvWindowClosed(2), EvWorkspaceActivated(7, TRUE)>>

AfterSnapshot(windows) == IF scn = 0 /\ windows = ScenarioWindows THEN 1 ELSE -1

AfterEvent(event) ==
    IF scn \in 1..Len(ScenarioEvents) /\ event = ScenarioEvents[scn]
    THEN scn + 1
    ELSE -1

(***************************************************************************)
(* main.                                                                   *)
(***************************************************************************)
\* What send() can return: a transport error, or the reply the compositor
\* has written.
Returned == {IoError} \cup {answer[i] : i \in 1..Len(answer)}

\* events_socket.send(Request::EventStream): the write of the request.
E_SendSubscribe ==
    /\ pc = "start"
    /\ pc' = "subscribing"
    /\ pending' = Append(pending, EventStream)
    /\ UNCHANGED <<pip_window, sent, seeds, streamed, last, matcher_vars,
                   open, gone, unseen, stream, eos, consumed, answer, listed, observed, scn>>

\* send() returns, and the matches! on what it returned.
E_SubscribeOutcome(reply) ==
    /\ pc = "subscribing"
    /\ reply \in Returned
    /\ sent' = Append(sent, Sent("events", Head(pending), reply))
    /\ pending' = Tail(pending)
    /\ answer' = None
    /\ pc' = IF reply.tag = "IoError" THEN "failed"
             ELSE IF reply.tag = "Handled" THEN "subscribed"
             ELSE "exited"
    /\ last' = Step("Subscribe", NoEvent, reply)
    /\ UNCHANGED <<pip_window, seeds, streamed, matcher_vars,
                   open, gone, unseen, stream, eos, consumed, listed, observed, scn>>

\* requests_socket.send(Request::Windows): the write of the request.
E_SendWindows ==
    /\ pc = "subscribed"
    /\ pc' = "listing"
    /\ pending' = Append(pending, RequestWindows)
    /\ UNCHANGED <<pip_window, sent, seeds, streamed, last, matcher_vars,
                   open, gone, unseen, stream, eos, consumed, answer, listed, observed, scn>>

\* send() returns; the seeding from the list received; read_events().
E_WindowsOutcome(reply) ==
    /\ pc = "listing"
    /\ reply \in Returned
    /\ sent' = Append(sent, Sent("requests", Head(pending), reply))
    /\ pending' = Tail(pending)
    /\ answer' = None
    /\ last' = Step("FetchWindows", NoEvent, reply)
    /\ IF reply.tag = "IoError"
       THEN /\ pc' = "failed"
            /\ UNCHANGED <<pip_window, seeds>>
       ELSE /\ pc' = "streaming"
            /\ IF reply.tag = "Windows"
               THEN /\ pip_window' = Seed(pip_window, reply.windows)
                    /\ seeds' = seeds + 1
               ELSE UNCHANGED <<pip_window, seeds>>
    /\ listed' = IF reply.tag = "Windows"
                 THEN {reply.windows[i].id : i \in 1..Len(reply.windows)}
                 ELSE listed
    /\ observed' = IF reply.tag = "Windows" THEN MatchingIds(reply.windows) ELSE observed
    /\ scn' = AfterSnapshot(reply.windows)
    /\ UNCHANGED <<streamed, matcher_vars, open, gone, unseen, stream, eos, consumed>>

\* read_event() returns the next event of the stream.
NextEvent == stream[consumed + 1]

Read(kind) ==
    /\ pc = "streaming"
    /\ consumed < Len(stream)
    /\ NextEvent.kind = kind
    /\ consumed' = consumed + 1
    /\ scn' = AfterEvent(NextEvent)

E_ReadEventErr ==
    /\ consumed = Len(stream)
    /\ eos
    /\ ReadEventErr("EndOfStream")
    /\ UNCHANGED <<matcher_vars, env_vars>>

\* The arm of WorkspaceActivated when no move is sent.
E_WorkspaceActivated ==
    /\ Read("WorkspaceActivated")
    /\ ~(NextEvent.focused /\ pip_window # None)
    /\ WorkspaceActivated(NextEvent.id, NextEvent.focused, NoReply)
    /\ UNCHANGED <<matcher_vars, open, gone, unseen, stream, eos, pending, answer, listed,
                   observed>>

\* The arm of WorkspaceActivated up to the write of the move request.
\* Variant: main goes on to the next event without reading the reply.
E_SendMove_NoWait ==
    /\ Read("WorkspaceActivated")
    /\ NextEvent.focused /\ pip_window # None
    /\ NumMoves + Len(pending) < MaxMoves
    /\ pending' = Append(pending, MoveWindowToWorkspace(pip_window[1], NextEvent.id))
    /\ pc' = "streaming"
    /\ streamed' = TRUE
    /\ last' = Step("ReadEvent", NextEvent, NoReply)
    /\ UNCHANGED <<pip_window, sent, seeds, matcher_vars,
                   open, gone, unseen, stream, eos, answer, listed, observed>>

E_SendMove ==
    /\ Read("WorkspaceActivated")
    /\ NextEvent.focused /\ pip_window # None
    /\ NumMoves + Len(pending) < MaxMoves
    /\ pending' = Append(pending, MoveWindowToWorkspace(pip_window[1], NextEvent.id))
    /\ pc' = "awaiting"
    /\ streamed' = TRUE
    /\ last' = Step("ReadEvent", NextEvent, NoReply)
    /\ UNCHANGED <<pip_window, sent, seeds, matcher_vars,
                   open, gone, unseen, stream, eos, answer, listed, observed>>

\* The rest of that arm: send() returns the outcome of the request.
E_MoveOutcome(reply) ==
    /\ pc = "awaiting"
    /\ pending # <<>>
    /\ sent' = Append(sent, Sent("requests", Head(pending), reply))
    /\ pending' = Tail(pending)
    /\ pc' = IF reply.tag = "IoError" THEN "failed" ELSE "streaming"
    /\ last' = [last EXCEPT !.reply = reply]
    /\ UNCHANGED <<pip_window, seeds, streamed, matcher_vars,
                   open, gone, unseen, stream, eos, consumed, answer, listed, observed, scn>>

E_WindowOpenedOrChanged ==
    /\ Read("WindowOpenedOrChanged")
    /\ WindowOpenedOrChanged(NextEvent.window)
    /\ observed' = IF window_matches(NextEvent.window)
                   THEN observed \cup {NextEvent.window.id}
                   ELSE observed
    /\ UNCHANGED <<matcher_vars, open, gone, unseen, stream, eos, pending, answer, listed>>

E_WindowClosed ==
    /\ Read("WindowClosed")
    /\ WindowClosed(NextEvent.id)
    /\ observed' = observed \ {NextEvent.id}
    /\ UNCHANGED <<matcher_vars, open, gone, unseen, stream, eos, pending, answer, listed>>

E_OtherEvent ==
    /\ pc = "streaming"
    /\ consumed < Len(stream)
    /\ NextEvent.kind \in EnvOtherKinds
    /\ consumed' = consumed + 1
    /\ scn' = AfterEvent(NextEvent)
    /\ OtherEvent(NextEvent.kind)
    /\ UNCHANGED <<matcher_vars, open, gone, unseen, stream, eos, pending, answer, listed,
                   observed>>

EnvNext ==
    \/ \E window \in EnvWindows : C_WindowOpenedOrChanged(window)
    \/ \E id \in WindowIds : C_WindowClosed(id)
    \/ \E id \in EnvWorkspaces, focused \in BOOLEAN : C_WorkspaceActivated(id, focused)
    \/ \E name \in EnvOtherKinds : C_OtherEvent(name)
    \/ C_CloseStream
    \/ \E reply \in {ErrReply, Handled} : C_AnswerEventStream(reply)
    \/ \E reply \in {ErrReply} \cup {WindowsReply(l) : l \in Listings(open)} :
           C_AnswerWindows(reply)
    \/ E_SendSubscribe
    \/ \E reply \in Returned : E_SubscribeOutcome(reply)
    \/ E_SendWindows
    \/ \E reply \in Returned : E_WindowsOutcome(reply)
    \/ E_ReadEventErr
    \/ E_WorkspaceActivated
    \/ E_SendMove
    \/ \E reply \in MoveReplies : E_MoveOutcome(reply)
    \/ E_WindowOpenedOrChanged
    \/ E_WindowClosed
    \/ E_OtherEvent

EnvSpec == EnvInit /\ [][EnvNext]_vars

(***************************************************************************)
(* Properties.  They read the step taken last: the event handled, the      *)
(* tracked id before it and the requests sent by it.                       *)
(***************************************************************************)
Handling(kind) == last.op = "ReadEvent" /\ last.event.kind = kind
SentByLast == Len(sent) - last.sent_before
Newest == sent[Len(sent)]

\* C1: in Tracking(A), handling WorkspaceActivated(W, focused = true) sends
\* exactly one request, the move of window A to workspace W with focus = false,
\* on the request socket, and the tracked id stays A.
C1_FocusedActivationMovesTracked ==
    (Handling("WorkspaceActivated") /\ last.event.focused /\ last.before # None) =>
        /\ SentByLast = 1
        /\ Newest.socket = "requests"
        /\ Newest.request =
               [kind |-> "Action", action |-> "MoveWindowToWorkspace",
                window_id |-> last.before, reference |-> last.event.id,
                focus |-> FALSE]
        /\ pip_window = last.before

\* A focused activation of workspace 7 was handled while window 1 was tracked.
C1_Witness ==
    /\ Handling("WorkspaceActivated")
    /\ last.event = EvWorkspaceActivated(7, TRUE)
    /\ last.before = Some(1)
    /\ Newest.request.reference = 7

\* C2: handling WorkspaceActivated with focused = false, or while nothing is
\* tracked, sends no request; no WorkspaceActivated changes the tracked id.
C2_UnfocusedOrIdleSendsNothing ==
    Handling("WorkspaceActivated") =>
        /\ pip_window = last.before
        /\ (~last.event.focused \/ last.before = None) =>
               /\ SentByLast = 0
               /\ pc = "streaming"

\* An unfocused activation was handled while a window was tracked.
C2_Witness ==
    /\ Handling("WorkspaceActivated")
    /\ ~last.event.focused
    /\ last.before = Some(2)
    /\ SentByLast = 0

\* C3: a WindowOpenedOrChanged whose descriptor does not match leaves the
\* tracked id as it was, for another window and for the tracked window itself;
\* the tracked id becomes None only by the WindowClosed of the tracked window.
C3_StickyTracking ==
    /\ (Handling("WindowOpenedOrChanged") /\ ~window_matches(last.event.window)) =>
           pip_window = last.before
    /\ (last.before # None /\ pip_window = None) =>
           /\ Handling("WindowClosed")
           /\ last.event.id = last.before[1]

\* The tracked window itself changed to a descriptor that no longer matches.
C3_Witness ==
    /\ Handling("WindowOpenedOrChanged")
    /\ ~window_matches(last.event.window)
    /\ last.before = Some(last.event.window.id)
    /\ pip_window = last.before

\* C4: handling WindowClosed(id) sets the tracked id to None when it was
\* Some(id) and leaves it unchanged otherwise; it sends no request.
C4_WindowClosedUntracksOnlyTracked ==
    Handling("WindowClosed") =>
        /\ pip_window = IF last.before = Some(last.event.id) THEN None ELSE last.before
        /\ SentByLast = 0

\* The tracked window was closed.
C4_Witness ==
    /\ Handling("WindowClosed")
    /\ last.before = Some(last.event.id)
    /\ pip_window = None

\* C5: handling WindowOpenedOrChanged with a matching descriptor of id W ends
\* with tracked = Some(W) from Idle, from Tracking(A) and from Tracking(W), and
\* sends no request.
C5_MatchingWindowIsTracked ==
    (Handling("WindowOpenedOrChanged") /\ window_matches(last.event.window)) =>
        /\ pip_window = Some(last.event.window.id)
        /\ SentByLast = 0

\* A matching window replaced another tracked window.
C5_Witness ==
    /\ Handling("WindowOpenedOrChanged")
    /\ window_matches(last.event.window)
    /\ last.before # None
    /\ last.before # Some(last.event.window.id)
    /\ pip_window = Some(last.event.window.id)

\* The positions of the matching descriptors of a window list.
Matching(windows) == {i \in 1..Len(windows) : window_matches(windows[i])}

\* C6: after seeding from a snapshot, tracked is the id of the first descriptor
\* in list order that matches; it is None when no descriptor matches.
C6_SeedFirstMatchWins ==
    (last.op = "FetchWindows" /\ last.reply.tag = "Windows") =>
        LET windows == last.reply.windows
            matching == Matching(windows)
        IN  IF matching = {}
            THEN pip_window = None
            ELSE \E i \in matching :
                    /\ \A j \in matching : i <= j
                    /\ pip_window = Some(windows[i].id)

\* The snapshot held two matching windows of different ids.
C6_Witness ==
    /\ last.op = "FetchWindows"
    /\ last.reply.tag = "Windows"
    /\ Cardinality(Matching(last.reply.windows)) = 2
    /\ last.reply.windows[1].id # last.reply.windows[2].id
    /\ pip_window = Some(last.reply.windows[1].id)

\* C7: a move command that fails with a transport error is attempted once and
\* the tracked id is not rolled back: it is still set after the failure.
C7_TransportFailureNoRetryNoRollback ==
    (Handling("WorkspaceActivated") /\ last.reply.tag = "IoError") =>
        /\ SentByLast = 1
        /\ Newest.outcome = "IoError"
        /\ pip_window # None
        /\ pip_window = last.before

\* A move command failed with a transport error.
C7_Witness ==
    /\ Handling("WorkspaceActivated")
    /\ last.reply.tag = "IoError"
    /\ IsMove(Newest)
    /\ pc = "failed"

\* A move command among the first n requests was answered with an error reply.
MoveRefusedWithin(n) ==
    \E i \in 1..n : IsMove(sent[i]) /\ sent[i].outcome = "Err"

\* C8, as stated: after a move command fails, by a transport error or by an
\* error reply, the loop keeps consuming events, and the process terminates
\* only when the stream ends.
C8_Stated_FailedMoveNeverFatal ==
    /\ (Handling("WorkspaceActivated") /\ last.reply.tag \in {"IoError", "Err"}) =>
           pc = "streaming"
    /\ (streamed /\ pc \in {"exited", "failed"}) => Handling("ReadError")

\* C8, amended: a move command answered with an error reply is not fatal: the
\* loop keeps consuming events with the tracked id kept, and a later focused
\* WorkspaceActivated handled while a window is tracked sends a new move for
\* it.  A transport error of the move command ends main with that error.  Once
\* streaming, main ends only by a failed read_event or by that transport error.
C8_ErrorReplySelfHeals ==
    /\ (Handling("WorkspaceActivated") /\ last.reply.tag = "Err") =>
           /\ pc = "streaming"
           /\ pip_window = last.before
    /\ (Handling("WorkspaceActivated") /\ last.reply.tag = "IoError") =>
           pc = "failed"
    /\ (/\ Handling("WorkspaceActivated")
        /\ last.event.focused
        /\ last.before # None
        /\ MoveRefusedWithin(last.sent_before)) =>
           /\ SentByLast = 1
           /\ IsMove(Newest)
           /\ Newest.request.window_id = last.before
           /\ Newest.request.reference = last.event.id
    /\ (streamed /\ pc = "exited") => Handling("ReadError")
    /\ (streamed /\ pc = "failed") =>
           (Handling("WorkspaceActivated") /\ last.reply.tag = "IoError")

\* After a refused move, the next focused activation moved the window again.
C8_Witness ==
    /\ Handling("WorkspaceActivated")
    /\ last.event.focused
    /\ last.before # None
    /\ MoveRefusedWithin(last.sent_before)
    /\ Newest.outcome = "Handled"
    /\ pc = "streaming"

\* C9, as stated: a malformed event changes no state, sends no command and
\* does not end the loop.
C9_Stated_MalformedEventIgnored ==
    (Handling("ReadError") /\ last.event.cause = "Malformed") =>
        /\ pip_window = last.before
        /\ SentByLast = 0
        /\ pc = "streaming"

\* C9, amended: an event that does not decode makes read_event fail; it
\* changes no tracked id and sends no command, but it ends the loop as the end
\* of the stream does, main returns normally and nothing is handled after it.
\* Only a decoded event of a kind without an arm is ignored with the loop
\* going on.
C9_MalformedEventEndsLoop ==
    /\ Handling("ReadError") =>
           /\ pip_window = last.before
           /\ SentByLast = 0
           /\ pc = "exited"
    /\ (last.op = "ReadEvent" /\ last.event.kind \in OtherKinds) =>
           /\ pip_window = last.before
           /\ SentByLast = 0
           /\ pc = "streaming"
    /\ (streamed /\ pc = "exited") => Handling("ReadError")

\* A malformed event arrived while a window was tracked.
C9_Witness ==
    /\ Handling("ReadError")
    /\ last.event.cause = "Malformed"
    /\ last.before # None
    /\ pc = "exited"

\* C10: the subscription is the first request; the snapshot is requested only
\* after the subscription was answered Handled; seeding runs at most once and
\* before any event is read; every move command comes after the snapshot step.
C10_DriverOrder ==
    /\ sent # <<>> => (sent[1].socket = "events" /\ sent[1].request = EventStream)
    /\ \A i \in 1..Len(sent) :
           /\ sent[i].request = EventStream => i = 1
           /\ sent[i].request = RequestWindows =>
                  (i = 2 /\ sent[1].outcome = "Handled")
           /\ IsMove(sent[i]) =>
                  /\ i > 2
                  /\ sent[2].request = RequestWindows
                  /\ sent[2].outcome # "IoError"
    /\ seeds <= 1
    /\ seeds = 1 => (Len(sent) >= 2 /\ sent[2].outcome = "Windows")
    /\ last.op = "FetchWindows" => ~streamed
    /\ streamed => (Len(sent) >= 2 /\ sent[2].request = RequestWindows)

\* A move command was sent in a run that seeded from the snapshot.
C10_Witness ==
    /\ seeds = 1
    /\ streamed
    /\ Len(sent) >= 3
    /\ IsMove(sent[3])

\* C11, as stated: when the subscription is not established, by a transport
\* error, an error reply or a response that is not Handled, main requests no
\* snapshot, reads no event, sends no move, tracks nothing and exits cleanly.
C11_Stated_NoSubscriptionExitsCleanly ==
    (sent # <<>> /\ sent[1].outcome # "Handled") =>
        /\ Len(sent) = 1
        /\ ~streamed
        /\ seeds = 0
        /\ pip_window = None
        /\ pc = "exited"

\* C11, amended: when the subscription request is answered with an error reply
\* or with a response that is not Handled, main requests no snapshot, reads no
\* event, sends no move, tracks nothing and returns normally.  When the request
\* fails with a transport error main does none of these either, but returns
\* that error.
C11_RefusedSubscriptionIsNoOp ==
    (sent # <<>> /\ sent[1].outcome # "Handled") =>
        /\ Len(sent) = 1
        /\ ~streamed
        /\ seeds = 0
        /\ pip_window = None
        /\ last.op = "Subscribe"
        /\ pc = IF sent[1].outcome = "IoError" THEN "failed" ELSE "exited"

\* The subscription was answered with an error reply.
C11_Witness ==
    /\ last.op = "Subscribe"
    /\ last.reply = ErrReply
    /\ pc = "exited"

\* The requests sent on the event socket.
Subscriptions == {i \in 1..Len(sent) : sent[i].request = EventStream}

\* C12: when the stream ends the loop exits and main returns normally: it
\* sends nothing after the end of the stream, never subscribes a second time
\* and takes no further step.
C12_StreamEndTerminates ==
    /\ (Handling("ReadError") /\ last.event.cause = "EndOfStream") =>
           /\ pc = "exited"
           /\ SentByLast = 0
           /\ pip_window = last.before
    /\ Cardinality(Subscriptions) <= 1
    /\ \A i \in 1..Len(sent) : sent[i].socket = "events" => i = 1
    /\ pc = "exited" => ~ENABLED Next

\* The stream ended while a window was tracked and after a move was sent.
C12_Witness ==
    /\ Handling("ReadError")
    /\ last.event.cause = "EndOfStream"
    /\ last.before # None
    /\ NumMoves > 0
    /\ pc = "exited"

\* C13: every request sent after the snapshot query is a move command with
\* focus = false on the request socket, and the window it names is the tracked
\* id at the moment its event is handled.
C13_OnlyMovesOfTrackedWindow ==
    /\ \A i \in 3..Len(sent) :
           /\ sent[i].socket = "requests"
           /\ sent[i].request.kind = "Action"
           /\ sent[i].request.action = "MoveWindowToWorkspace"
           /\ sent[i].request.focus = FALSE
           /\ sent[i].request.window_id # None
    /\ (last.op = "ReadEvent" /\ SentByLast > 0) =>
           /\ Handling("WorkspaceActivated")
           /\ last.before # None
           /\ Newest.request.window_id = last.before
           /\ Newest.request.window_id = pip_window

\* A second move was sent, for another window than the first.
C13_Witness ==
    /\ Len(sent) = 4
    /\ SentByLast = 1
    /\ sent[3].request.window_id # sent[4].request.window_id
    /\ sent[4].request.window_id = last.before

\* The event kinds the loop has an arm for.
ArmKinds == {"WorkspaceActivated", "WindowOpenedOrChanged", "WindowClosed"}

\* C16: handling an event of any kind other than WorkspaceActivated,
\* WindowOpenedOrChanged and WindowClosed leaves the tracked id unchanged,
\* sends no command, and the loop goes on to the next event.
C16_OtherEventsIgnored ==
    (/\ last.op = "ReadEvent"
     /\ last.event.kind \notin ArmKinds
     /\ last.event.kind # "ReadError") =>
        /\ pip_window = last.before
        /\ SentByLast = 0
        /\ pc = "streaming"
        /\ ENABLED Next

\* An event without an arm was handled while a window was tracked.
C16_Witness ==
    /\ last.op = "ReadEvent"
    /\ last.event = EvOther("WindowFocusChanged")
    /\ last.before # None
    /\ pip_window = last.before

\* The snapshot request was answered, but not with a window list.
SnapshotRefused ==
    /\ Len(sent) >= 2
    /\ sent[2].request = RequestWindows
    /\ sent[2].outcome \notin {"Windows", "IoError"}

\* C20: when the snapshot request is answered with an error reply or with a
\* response that is not a window list, seeding is skipped, the tracker starts
\* Idle, the event loop runs, and a later matching WindowOpenedOrChanged
\* starts the tracking.
C20_RefusedSnapshotNotFatal ==
    /\ (last.op = "FetchWindows" /\ last.reply.tag \notin {"Windows", "IoError"}) =>
           /\ seeds = 0
           /\ pip_window = None
           /\ pc = "streaming"
    /\ SnapshotRefused =>
           /\ seeds = 0
           /\ pc # "subscribed"
           /\ (pc \in {"exited", "failed"} => streamed)
           /\ (Handling("WindowOpenedOrChanged") /\ window_matches(last.event.window)) =>
                  pip_window = Some(last.event.window.id)

\* After a refused snapshot a matching window was opened and is tracked.
C20_Witness ==
    /\ SnapshotRefused
    /\ sent[2].outcome = "Err"
    /\ Handling("WindowOpenedOrChanged")
    /\ last.before = None
    /\ pip_window = Some(last.event.window.id)

\* C15: window_matches is true exactly when the title is present and satisfies
\* the title rule and the app-id is absent or satisfies the app-id rule; a
\* descriptor without a title never matches, whatever its app-id; a title that
\* satisfies the rule with no app-id always matches.
C15_MatcherAsymmetricAbsence ==
    m_pc = "return" =>
        /\ m_result <=>
               /\ m_window.title # None
               /\ \E t \in MatchTitles :
                      m_window.title = Some(t) /\ TITLE_REGEX_is_match(t)
               /\ \/ m_window.app_id = None
                  \/ \E a \in MatchAppIds :
                         m_window.app_id = Some(a) /\ APP_ID_REGEX_is_match(a)
        /\ m_window.title = None => ~m_result
        /\ (m_window.title = Some("Picture-in-Picture") /\ m_window.app_id = None) =>
               m_result

\* window_matches accepted a descriptor with the title and no app-id.
C15_Witness ==
    /\ m_pc = "return"
    /\ m_window.title = Some("Picture-in-Picture")
    /\ m_window.app_id = None
    /\ m_result

\* C14: events are handled one at a time in the order of the stream, and a
\* command is synchronous: while the outcome of a move is awaited no further
\* event is pulled, so at most one command is outstanding.
C14_OneEventOneCommandAtATime ==
    /\ consumed <= Len(stream)
    /\ Len(pending) <= 1
    /\ pending # <<>> <=> pc \in {"subscribing", "listing", "awaiting"}
    /\ answer # None => pc \in {"subscribing", "listing"}
    /\ pc = "subscribing" => (pending = <<EventStream>> /\ consumed = 0)
    /\ pc = "listing" => (pending = <<RequestWindows>> /\ consumed = 0)
    /\ pc = "awaiting" =>
           /\ Handling("WorkspaceActivated")
           /\ last.event = stream[consumed]
           /\ last.reply = NoReply
           /\ pending[1].window_id = last.before
           /\ pending[1].reference = last.event.id
    /\ (last.op = "ReadEvent" /\ last.event.kind # "ReadError") =>
           /\ consumed >= 1
           /\ last.event = stream[consumed]

\* A move is outstanding while the next event already waits in the stream.
C14_Witness ==
    /\ pc = "awaiting"
    /\ Len(pending) = 1
    /\ consumed < Len(stream)
    /\ NumMoves = 1

\* The window a request names.
Moved(request) == request.window_id[1]

\* The move commands among the requests whose outcome is awaited.
PendingMoves == {i \in 1..Len(pending) : pending[i].kind = "Action"}

\* C17: the end-to-end scenario.  Seeding with window 1 without a title and
\* window 2 with matching title and app-id tracks 2; WorkspaceActivated(7,
\* focused) then emits the move of window 2 to workspace 7 with focus = false;
\* WindowClosed(2) then untracks; WorkspaceActivated(7, focused) then emits
\* nothing.  In every run a move names a window seen matching whose close has
\* not been handled since.
C17_EndToEndScenario ==
    /\ scn = 1 => (pip_window = Some(2) /\ sent[2].outcome = "Windows")
    /\ scn = 2 =>
           /\ pip_window = Some(2)
           /\ Len(sent) + Len(pending) = 3
           /\ \/ pending = <<[kind |-> "Action", action |-> "MoveWindowToWorkspace",
                              window_id |-> Some(2), reference |-> 7, focus |-> FALSE]>>
              \/ /\ pending = <<>>
                 /\ sent[3].request =
                        [kind |-> "Action", action |-> "MoveWindowToWorkspace",
                         window_id |-> Some(2), reference |-> 7, focus |-> FALSE]
    /\ scn = 3 => pip_window = None
    /\ scn = 4 =>
           /\ pip_window = None
           /\ pending = <<>>
           /\ Len(sent) = 3
           /\ Handling("WorkspaceActivated") => SentByLast = 0
    /\ \A i \in PendingMoves : Moved(pending[i]) \in observed
    /\ (Handling("WorkspaceActivated") /\ SentByLast = 1) =>
           Moved(Newest.request) \in observed

\* The scenario was followed to its end.
C17_Witness ==
    /\ scn = 4
    /\ consumed = 3
    /\ last.event = EvWorkspaceActivated(7, TRUE)

\* A matching WindowOpenedOrChanged for id among the events from..to.
SeenMatchingIn(id, from, to) ==
    \E j \in from..to :
        /\ stream[j].kind = "WindowOpenedOrChanged"
        /\ stream[j].window.id = id
        /\ window_matches(stream[j].window)

\* The events handled so far that closed a window not seen matching since.
HandledCloses ==
    {k \in 1..consumed :
        /\ stream[k].kind = "WindowClosed"
        /\ ~SeenMatchingIn(stream[k].id, k + 1, consumed)}

\* What main holds of C18: the tracked id is an id seen matching, in the seed
\* or in a WindowOpenedOrChanged, whose close has not been handled since; after
\* the close of id was handled neither the tracked id nor a move names id
\* before a later matching WindowOpenedOrChanged of id is handled.
TrackedIsFresh ==
    /\ pip_window # None => pip_window[1] \in observed
    /\ \A k \in HandledCloses :
           /\ pip_window # Some(stream[k].id)
           /\ stream[k].id \notin observed
           /\ \A i \in PendingMoves : Moved(pending[i]) # stream[k].id
    /\ (Handling("WorkspaceActivated") /\ Len(pending) + SentByLast = 1) =>
           /\ last.before # None
           /\ last.before[1] \in observed
           /\ \A k \in HandledCloses : stream[k].id # last.before[1]

\* The stream holds the WindowClosed of id.
CloseInStream(id) == \E k \in 1..Len(stream) : stream[k] = EvWindowClosed(id)

\* C18, as stated: the tracked id is an id seen matching whose close has not
\* been handled since, no move names an id whose close was handled, and a
\* window that the snapshot listed and that the compositor closed always has
\* its WindowClosed in the stream.
C18_Stated_NoStaleTarget ==
    /\ TrackedIsFresh
    /\ \A id \in listed \cap gone : CloseInStream(id)

\* C18, amended: the tracked id is an id seen matching whose close has not
\* been handled since, and no move names an id whose close was handled.  A
\* window that the snapshot listed and that the compositor closed has its
\* WindowClosed in the stream unless the compositor closed the event socket
\* before it closed the window: then no WindowClosed is written for it.
C18_NoStaleTargetWhileStreamed ==
    /\ TrackedIsFresh
    /\ \A id \in (listed \cap gone) \ unseen : CloseInStream(id)
    /\ \A id \in unseen : eos /\ ~CloseInStream(id)

\* The window tracked from the seed was closed after the snapshot, and its
\* close has been handled.
C18_Witness ==
    /\ Handling("WindowClosed")
    /\ last.event.id \in listed \cap gone
    /\ last.before = Some(last.event.id)
    /\ seeds = 1
    /\ consumed \in HandledCloses
    /\ pip_window = None

\* The open windows, other than id, that were seen matching and still match.
OtherCandidates(id) ==
    {w \in open : w.id # id /\ w.id \in observed /\ window_matches(w)}

\* C19: when the tracked window is closed the tracker becomes Idle, also when
\* another window seen matching before is still open; from Idle only a
\* matching WindowOpenedOrChanged makes the tracker track again, the window
\* of that event, and until then a focused WorkspaceActivated sends nothing.
C19_NoFallbackAfterClose ==
    /\ (Handling("WindowClosed") /\ last.before = Some(last.event.id)) =>
           pip_window = None
    /\ (last.op = "ReadEvent" /\ last.before = None /\ pip_window # None) =>
           /\ Handling("WindowOpenedOrChanged")
           /\ window_matches(last.event.window)
           /\ pip_window = Some(last.event.window.id)
    /\ (Handling("WorkspaceActivated") /\ last.before = None) =>
           /\ SentByLast = 0
           /\ pending = <<>>
           /\ pip_window = None

\* The tracked window was closed while another matching window stays open.
C19_Witness ==
    /\ Handling("WindowClosed")
    /\ last.before = Some(last.event.id)
    /\ OtherCandidates(last.event.id) # {}
    /\ pip_window = None
====
